---- MODULE Spec2Model ----
(***************************************************************************)
(* Model of copng.cpp: the coroutine coPng reads a PNG in chunks through   *)
(* the awaiter Reader, pushes every chunk through the progressive decoder  *)
(* (png_process_data), whose callbacks shrink the image by sampleRate and  *)
(* write it out incrementally; main resumes the coroutine until it is done.*)
(*                                                                         *)
(* The codec is a library: the decoder is modelled at its interface as a   *)
(* stream parser that buffers partial structures across calls and fires    *)
(* info_callback, row_callback (once per row, in increasing order: the     *)
(* image is not interlaced) and end_callback when the bytes of the         *)
(* corresponding structure are complete; the encoder is modelled as the    *)
(* log of the calls it receives.                                           *)
(***************************************************************************)
EXTENDS Integers, Sequences, FiniteSets, TLC

\* ------------------------------------------------------------- bounds
\* Reader<1024>, scaled down: the capacity of imageBuffer.
bufSize == 3
\* Encoded bytes per structure of the stream (header, each row, end).
RecLen == 2
MaxWidth == 3
MaxHeight == 3
MaxRate == 4
\* The rows and pixels of row_callback's loop followed step by step.
MaxRowWidth == 6
MaxChannels == 3

Min(a, b) == IF a < b THEN a ELSE b

\* ------------------------------------------------------------- the image
BitDepths == {8, 16}
\* PNG_COLOR_TYPE_GRAY, PNG_COLOR_TYPE_GRAY_ALPHA
ColorTypes == {0, 4}
\* PNG_INTERLACE_NONE
InterlaceTypes == {0}

\* The IHDR fields png_get_IHDR returns.
Headers ==
  [width : 1..MaxWidth, height : 1..MaxHeight, bit_depth : BitDepths,
   color_type : ColorTypes, interlace_type : InterlaceTypes,
   compression_type : {0}, filter_type : {0}]

\* png_get_channels
png_get_channels(h) == IF h.color_type = 4 THEN 2 ELSE 1

\* png_get_rowbytes, for bit depths of whole bytes
png_get_rowbytes(h) == h.width * png_get_channels(h) * (h.bit_depth \div 8)

\* The decoded bytes of row r as the decoder hands them to row_callback:
\* every byte of the image is different, so a moved byte is seen.
RawRow(h, r) ==
  [j \in 0..(png_get_rowbytes(h) - 1) |-> (r * png_get_rowbytes(h) + j + 1) % 256]

\* The encoded stream: byte p of a well-formed stream has the value p; a
\* corrupted byte has the value 0.  Structure k (1 = header,
\* 2..height+1 = the rows, height+2 = end) is complete at byte k*RecLen.
FullLen(h) == RecLen * (h.height + 2)

Stream(len, bad) ==
  [p \in 1..len |-> IF p = bad THEN 0 ELSE p]

\* The input files: the whole stream, the stream with one corrupted byte,
\* and every truncation of the stream (the empty file included).
Files(h) ==
  {Stream(FullLen(h), bad) : bad \in 0..FullLen(h)}
    \cup {Stream(len, 0) : len \in 0..(FullLen(h) - 1)}

\* ------------------------------------------------------------- state
VARIABLES
  hdr,          \* the IHDR of the input image
  sampleRate,   \* argv[3]
  file,         \* the bytes of the input file
  pc,           \* where the coroutine (or main) is
  held,         \* the resources acquired and not yet released
  err,          \* the exception that ended the run, "none" if none
  srcPos,       \* imageStream: bytes read so far
  srcFailed,    \* imageStream: some read has reported an error
  imageBuffer,  \* Reader::imageBuffer
  totalRead,    \* Reader::totalRead
  spanPos,      \* bytes of the current span the decoder has consumed
  consumed,     \* decoder: stream bytes accepted so far
  info,         \* PngReadWrite::userInfo
  new_row,      \* the row buffer of the last row_callback, after it returned
  row_num,      \* the row index of the last row_callback, -1 before the first
  encLog,       \* the calls the encoder has received, in order
  loop          \* row_callback's loop, when it is followed step by step

vars ==
  <<hdr, sampleRate, file, pc, held, err, srcPos, srcFailed,
    imageBuffer, totalRead, spanPos, consumed, info, new_row, row_num, encLog,
    loop>>

input == <<hdr, sampleRate, file>>

\* ------------------------------------------------------------- row_callback
\* for (int y = 0; y < info->channels; ++y) new_row[writePos+y] = new_row[i+y];
RECURSIVE CopyPixel(_, _, _, _, _)
CopyPixel(row, writePos, i, y, channels) ==
  IF y >= channels
    THEN row
    ELSE CopyPixel([row EXCEPT ![writePos + y] = row[i + y]],
                   writePos, i, y + 1, channels)

\* The bounds check, were it to ask for room for one more pixel.
BoundsCheck_Tight(i, channels, rowWidth) == i + 2 * channels < rowWidth

\* if (i + info->channels < info->rowWidth)
BoundsCheck(i, channels, rowWidth) == i + channels < rowWidth

\* The stride, were the channel count forgotten.
Stride_NoChannels(rate, channels) == rate

\* i += info->sampleRate*info->channels
Stride(rate, channels) == rate * channels

\* for (int i = 0; i < info->rowWidth; i += stride) { ...; writePos += channels; }
RECURSIVE ShrinkLoop(_, _, _, _)
ShrinkLoop(row, i, writePos, ui) ==
  IF i >= ui.rowWidth
    THEN row
    ELSE ShrinkLoop(
           IF BoundsCheck(i, ui.channels, ui.rowWidth)
             THEN CopyPixel(row, writePos, i, 0, ui.channels)
             ELSE row,
           i + Stride(ui.sampleRate, ui.channels),
           writePos + ui.channels,
           ui)

\* int writePos = 0; for (...) ...
ShrinkRow(row, ui) == ShrinkLoop(row, 0, 0, ui)

\* The row test, were the rows counted from 1.
RowRetained_FromOne(r, rate) == (r + 1) % rate = 0

\* if (row_num % info->sampleRate == 0)
RowRetained(r, rate) == r % rate = 0

\* ------------------------------------------------------------- the encoder
NoRow == [j \in {} |-> 0]
NoHdr ==
  [width |-> 0, height |-> 0, bit_depth |-> 0, color_type |-> 0,
   interlace_type |-> 0, compression_type |-> 0, filter_type |-> 0]

\* png_set_IHDR + png_write_info + png_write_flush
SetHeaderCall(h) == [op |-> "setHeader", hdr |-> h, row |-> NoRow, num |-> -1]
\* png_write_row + png_write_flush
WriteRowCall(row, r) == [op |-> "writeRow", hdr |-> NoHdr, row |-> row, num |-> r]
\* end_callback's call, were it to flush without writing the end of the image.
FinalizeCall_FlushOnly == [op |-> "flush", hdr |-> NoHdr, row |-> NoRow, num |-> -1]

\* png_write_end + png_write_flush
FinalizeCall == [op |-> "finalize", hdr |-> NoHdr, row |-> NoRow, num |-> -1]

\* The output header, were the dimensions rounded up.
OutHeader_RoundUp(h, rate) ==
  [h EXCEPT !.width = (h.width + rate - 1) \div rate,
            !.height = (h.height + rate - 1) \div rate]

\* The header info_callback gives png_set_IHDR.
OutHeader(h, rate) ==
  [h EXCEPT !.width = h.width \div rate, !.height = h.height \div rate]

\* The sample rate test, were it to fail only when both dimensions are small.
RateOutside_Both(h, rate) == h.width < rate /\ h.height < rate

\* if (width < info->sampleRate || height < info->sampleRate)
RateOutside(h, rate) == h.width < rate \/ h.height < rate

\* ------------------------------------------------------------- Init
\* row_callback's loop is not followed step by step.
NoLoop == [i |-> -1, writePos |-> -1, src |-> NoRow, sep |-> NoRow,
           reads |-> {}, writes |-> {}]

AllResources == {"imageReader", "png_ptr", "png_write_ptr", "outFilePtr"}

Init ==
  /\ hdr \in Headers
  /\ sampleRate \in 1..MaxRate
  /\ file \in Files(hdr)
  /\ pc = "initial"
  /\ held = {}
  /\ err = "none"
  /\ srcPos = 0
  /\ srcFailed = FALSE
  /\ imageBuffer = [k \in 0..(bufSize - 1) |-> 0]
  /\ totalRead = 0
  /\ spanPos = 0
  /\ consumed = 0
  /\ info = [isDone |-> FALSE, rowWidth |-> 0, channels |-> 1, sampleRate |-> 1]
  /\ new_row = NoRow
  /\ row_num = -1
  /\ encLog = <<>>
  /\ loop = NoLoop

\* std::terminate() from unhandled_exception, or abort() from the library:
\* the process ends where it is, nothing is released.
Terminate(kind) ==
  /\ pc' = "terminated"
  /\ err' = kind

\* ------------------------------------------------------------- coPng, set-up
\* What is held when the set-up step `step` throws.
HeldAtSetupFailure(step) ==
  CASE step = "open_in" -> {}
    [] step = "read_struct" -> {"imageReader"}
    [] step = "info_struct" -> {"imageReader"}
    [] step = "write_struct" -> {"imageReader", "png_ptr"}
    [] step = "open_out" -> {"imageReader", "png_ptr", "png_write_ptr"}

SetupSteps == {"open_in", "read_struct", "info_struct", "write_struct", "open_out"}

\* main: the first handle(); the coroutine runs its set-up and reaches co_await.
Start ==
  /\ pc = "initial"
  /\ \E step \in SetupSteps \cup {"ok"} :
       IF step = "ok"
         THEN /\ held' = AllResources
              /\ info' = [info EXCEPT !.sampleRate = sampleRate]
              /\ pc' = "await"
              /\ err' = err
         ELSE /\ held' = HeldAtSetupFailure(step)
              /\ info' = info
              /\ Terminate("SetupError")
  /\ UNCHANGED <<input, loop, srcPos, srcFailed, imageBuffer, totalRead, spanPos,
                 consumed, new_row, row_num, encLog>>

\* ------------------------------------------------------------- Reader
\* imageStream.readsome(&imageBuffer.at(totalRead), max_size() - totalRead):
\* the n bytes at the stream position are stored from totalRead on.
ReadInto(buf, at, n) ==
  [k \in DOMAIN buf |->
     IF at <= k /\ k < at + n THEN file[srcPos + (k - at) + 1] ELSE buf[k]]

\* What the byte source may answer to a request of req bytes: n bytes, at
\* most req and at most what is left, and whether the read failed.  It
\* answers 0 bytes only at the end of the stream or on a failure.
SourceAnswers(req) ==
  {a \in [n : 0..Min(req, Len(file) - srcPos), bad : BOOLEAN] :
     a.n = 0 => (srcPos = Len(file) \/ a.bad)}

\* The bytes of imageBuffer at or beyond the cursor are indeterminate
\* (uninitialised at first, left over from an earlier chunk later) and no code
\* reads them: await_resume's span ends at totalRead.  They are kept as 0.
Valid(buf, t) == [k \in DOMAIN buf |-> IF k < t THEN buf[k] ELSE 0]

\* Reader::await_ready
await_ready == totalRead = bufSize

\* The request, were it one byte more than the room left.
Request_OneMore(t) == bufSize - t + 1

\* imageBuffer.max_size() - totalRead: the bytes readsome is asked for.
Request(t) == bufSize - t

\* The answer of await_suspend, were it to suspend after every read of bytes.
NeedsSuspend_Always(t) == TRUE

\* if (totalRead == bufSize) return false; else return true;
NeedsSuspend(t) == t /= bufSize

\* clear, were it to leave the cursor where it is.
clear_Keep(t) == t

\* Reader::clear
clear(t) == 0

\* co_await imageReader: await_ready, then await_suspend, which reads once
\* and either lets the coroutine go on (await_resume) or suspends it.  The
\* bytes of a read that throws land beyond the cursor, which does not move.
Await ==
  /\ pc = "await"
  /\ IF await_ready
       THEN /\ pc' = "process"
            /\ UNCHANGED <<err, srcPos, srcFailed, imageBuffer, totalRead>>
       ELSE \E a \in SourceAnswers(Request(totalRead)) :
              /\ srcPos' = srcPos + a.n
              /\ srcFailed' = (srcFailed \/ a.bad)
              /\ IF a.n = 0
                   THEN /\ pc' = "process"
                        /\ UNCHANGED <<err, totalRead, imageBuffer>>
                   ELSE IF a.bad
                     THEN /\ Terminate("IOReadError")
                          /\ UNCHANGED <<totalRead, imageBuffer>>
                     ELSE /\ totalRead' = totalRead + a.n
                          /\ imageBuffer' = ReadInto(imageBuffer, totalRead, a.n)
                          /\ pc' = IF NeedsSuspend(totalRead')
                                     THEN "suspended" ELSE "process"
                          /\ UNCHANGED err
  /\ spanPos' = 0
  /\ UNCHANGED <<input, loop, held, consumed, info, new_row, row_num, encLog>>

\* main: while (!handle.done()) handle(), on the coroutine suspended in
\* co_await: it goes on at await_resume, with the span read so far.
Resume ==
  /\ pc = "suspended"
  /\ pc' = "process"
  /\ spanPos' = 0
  /\ UNCHANGED <<input, loop, held, err, srcPos, srcFailed, imageBuffer, totalRead,
                 consumed, info, new_row, row_num, encLog>>

\* ------------------------------------------------------------- png_process_data
\* The decoder has a byte of the span left to take.
Feeding == pc = "process" /\ spanPos < totalRead

NextByte == imageBuffer[spanPos]

\* The next byte is the one the stream must have here.
Accepts == ~info.isDone /\ NextByte = consumed + 1

\* The structure the next byte completes, 0 if it completes none.
Completes ==
  IF Accepts /\ (consumed + 1) % RecLen = 0
    THEN (consumed + 1) \div RecLen ELSE 0

Take ==
  /\ spanPos' = spanPos + 1
  /\ consumed' = consumed + 1

\* The decoder takes a byte that completes no structure (it keeps the partial
\* structure), or drops a byte that follows the end of the image.
png_push_byte ==
  /\ Feeding
  /\ info.isDone \/ (Accepts /\ Completes = 0)
  /\ spanPos' = spanPos + 1
  /\ consumed' = IF info.isDone THEN consumed ELSE consumed + 1
  /\ UNCHANGED <<input, loop, pc, held, err, srcPos, srcFailed, imageBuffer,
                 totalRead, info, new_row, row_num, encLog>>

\* The decoder meets a byte that is not the stream's: png_error, which ends
\* the process.
png_error ==
  /\ Feeding
  /\ ~info.isDone /\ ~Accepts
  /\ Terminate("DecodeFormatError")
  /\ UNCHANGED <<input, loop, held, srcPos, srcFailed, imageBuffer, totalRead,
                 spanPos, consumed, info, new_row, row_num, encLog>>

\* PngReadWrite::info_callback, on the byte that completes the header.
info_callback ==
  /\ Feeding
  /\ Completes = 1
  /\ Take
  /\ \E created \in BOOLEAN :
       IF ~created
         THEN /\ held' = held \ {"png_write_ptr"}
              /\ Terminate("EncodeInitError")
              /\ UNCHANGED <<info, encLog>>
         ELSE IF RateOutside(hdr, info.sampleRate)
           THEN /\ held' = held \cup {"info_write_ptr"}
                /\ Terminate("InvalidSampleRate")
                /\ UNCHANGED <<info, encLog>>
           ELSE /\ encLog' = Append(encLog, SetHeaderCall(OutHeader(hdr, info.sampleRate)))
                /\ info' = [info EXCEPT !.rowWidth = png_get_rowbytes(hdr),
                                        !.channels = png_get_channels(hdr)]
                /\ UNCHANGED <<held, pc, err>>
  /\ UNCHANGED <<input, loop, srcPos, srcFailed, imageBuffer, totalRead, new_row, row_num>>

\* PngReadWrite::row_callback, on the byte that completes row Completes - 2.
row_callback ==
  /\ Feeding
  /\ Completes >= 2 /\ Completes <= hdr.height + 1
  /\ Take
  /\ row_num' = Completes - 2
  /\ IF RowRetained(row_num', info.sampleRate)
       THEN /\ new_row' = ShrinkRow(RawRow(hdr, row_num'), info)
            /\ encLog' = Append(encLog, WriteRowCall(new_row', row_num'))
       ELSE /\ new_row' = RawRow(hdr, row_num')
            /\ encLog' = encLog
  /\ UNCHANGED <<input, loop, pc, held, err, srcPos, srcFailed, imageBuffer,
                 totalRead, info>>

\* PngReadWrite::end_callback, on the byte that completes the end structure.
end_callback ==
  /\ Feeding
  /\ Completes = hdr.height + 2
  /\ Take
  /\ info' = [info EXCEPT !.isDone = TRUE]
  /\ encLog' = Append(encLog, FinalizeCall)
  /\ UNCHANGED <<input, loop, pc, held, err, srcPos, srcFailed, imageBuffer,
                 totalRead, new_row, row_num>>

\* ------------------------------------------------------------- coPng, the loop
\* What the loop releases before break.
TornDown == {"png_write_ptr", "png_ptr", "outFilePtr"}

\* The exit test, were the empty span forgotten.
LoopEnds_DoneOnly == info.isDone

\* The exit test, were the end of the image forgotten.
LoopEnds_EmptyOnly == totalRead = 0

\* if (info.isDone || span.size() == 0)
LoopEnds == info.isDone \/ totalRead = 0

\* png_process_data has returned: break after releasing, or clear and loop.
LoopTail ==
  /\ pc = "process"
  /\ spanPos = totalRead
  /\ IF LoopEnds
       THEN /\ held' = held \ TornDown
            /\ pc' = "done"
            /\ UNCHANGED <<totalRead, imageBuffer>>
       ELSE /\ totalRead' = clear(totalRead)
            /\ imageBuffer' = Valid(imageBuffer, totalRead')
            /\ pc' = "await"
            /\ UNCHANGED held
  /\ spanPos' = 0
  /\ UNCHANGED <<input, loop, err, srcPos, srcFailed, consumed, info,
                 new_row, row_num, encLog>>

\* main: handle.destroy() once handle.done(): the coroutine frame, and the
\* Reader in it, are released.
Destroy ==
  /\ pc = "done"
  /\ pc' = "destroyed"
  /\ held' = held \ {"imageReader"}
  /\ UNCHANGED <<input, loop, err, srcPos, srcFailed, imageBuffer, totalRead, spanPos,
                 consumed, info, new_row, row_num, encLog>>

Next ==
  \/ Start
  \/ Await
  \/ Resume
  \/ png_push_byte
  \/ png_error
  \/ info_callback
  \/ row_callback
  \/ end_callback
  \/ LoopTail
  \/ Destroy

Spec == Init /\ [][Next]_vars

\* ------------------------------------------------------------- row_callback, step by step
\* The loop of row_callback on one retained row, an iteration at a time, for
\* every row width, channel count and sample rate of the bounds.  loop.src
\* keeps the row as delivered, loop.sep is the row compacted from loop.src
\* into a buffer of its own, loop.reads and loop.writes are the byte indices
\* the loop has read and written in new_row.
CopyFrom(dst, src, writePos, i, channels) ==
  [k \in DOMAIN dst |->
     IF writePos <= k /\ k < writePos + channels /\ (k - writePos + i) \in DOMAIN src
       THEN src[k - writePos + i] ELSE dst[k]]

InitRow ==
  /\ info \in [isDone : {FALSE}, rowWidth : 1..MaxRowWidth,
               channels : 1..MaxChannels, sampleRate : 1..MaxRate]
  /\ sampleRate = info.sampleRate
  /\ hdr = NoHdr
  /\ file = Stream(0, 0)
  /\ pc = "row_loop"
  /\ held = AllResources
  /\ err = "none"
  /\ srcPos = 0
  /\ srcFailed = FALSE
  /\ imageBuffer = [k \in 0..(bufSize - 1) |-> 0]
  /\ totalRead = 0
  /\ spanPos = 0
  /\ consumed = 0
  /\ new_row = [j \in 0..(info.rowWidth - 1) |-> j + 1]
  /\ row_num = 0
  /\ encLog = <<>>
  /\ loop = [i |-> 0, writePos |-> 0, src |-> new_row, sep |-> new_row,
             reads |-> {}, writes |-> {}]

\* One iteration: the bounds check, the copy of a pixel, writePos += channels
\* and i += sampleRate * channels.
LoopIteration ==
  /\ pc = "row_loop"
  /\ loop.i < info.rowWidth
  /\ IF BoundsCheck(loop.i, info.channels, info.rowWidth)
       THEN /\ new_row' = CopyPixel(new_row, loop.writePos, loop.i, 0, info.channels)
            /\ loop' = [loop EXCEPT
                 !.i = loop.i + Stride(info.sampleRate, info.channels),
                 !.writePos = loop.writePos + info.channels,
                 !.sep = CopyFrom(loop.sep, loop.src, loop.writePos, loop.i,
                                  info.channels),
                 !.reads = loop.reads
                             \cup {loop.i + y : y \in 0..(info.channels - 1)},
                 !.writes = loop.writes
                             \cup {loop.writePos + y : y \in 0..(info.channels - 1)}]
       ELSE /\ new_row' = new_row
            /\ loop' = [loop EXCEPT
                 !.i = loop.i + Stride(info.sampleRate, info.channels),
                 !.writePos = loop.writePos + info.channels]
  /\ UNCHANGED <<input, pc, held, err, srcPos, srcFailed, imageBuffer, totalRead,
                 spanPos, consumed, info, row_num, encLog>>

\* The loop has ended: png_write_row, png_write_flush.
LoopExit ==
  /\ pc = "row_loop"
  /\ loop.i >= info.rowWidth
  /\ encLog' = Append(encLog, WriteRowCall(new_row, row_num))
  /\ pc' = "row_written"
  /\ UNCHANGED <<input, loop, held, err, srcPos, srcFailed, imageBuffer, totalRead,
                 spanPos, consumed, info, new_row, row_num>>

NextRow ==
  \/ LoopIteration
  \/ LoopExit

SpecRow == InitRow /\ [][NextRow]_vars

\* The program is one thread that runs until it returns or is terminated:
\* a step that can be taken is taken.
FairSpec == Spec /\ WF_vars(Next)

\* ------------------------------------------------------------- properties
\* The positions of encLog that hold a call `op`.
Calls(op) == {k \in 1..Len(encLog) : encLog[k].op = op}

\* The row indices the encoder was given, in the order it was given them.
WrittenRows == {encLog[k].num : k \in Calls("writeRow")}

\* info_callback has run (the header structure was taken by the decoder).
HeaderSeen == consumed >= RecLen

CeilDiv(a, b) == (a + b - 1) \div b

\* C1: of the rows 0..row_num the decoder has delivered, row r was written
\* to the encoder if and only if r mod sampleRate = 0; the written rows are in
\* strictly increasing order of their original index, and a skipped row's
\* buffer is left as the decoder delivered it.
C1_ForwardedIffSampled ==
  /\ \A r \in 0..row_num : (r \in WrittenRows) <=> (r % sampleRate = 0)
  /\ WrittenRows \subseteq 0..row_num
  /\ \A j, k \in Calls("writeRow") : j < k => encLog[j].num < encLog[k].num
  /\ (row_num >= 0 /\ row_num % sampleRate /= 0) => new_row = RawRow(hdr, row_num)

\* C1 witness: with sampleRate 2, rows 0, 1, 2 were delivered and rows 0 and 2
\* were written.
C1_Witness ==
  /\ sampleRate = 2
  /\ row_num = 2
  /\ WrittenRows = {0, 2}

\* C2: whenever sampleRate <= min(width, height) and info_callback has set the
\* output header, that header has width floor(width / sampleRate), height
\* floor(height / sampleRate) and every other field of the input header; no
\* header is ever set otherwise, and it is set once info_callback has returned.
C2_OutputHeader ==
  /\ \A k \in Calls("setHeader") :
       /\ sampleRate <= Min(hdr.width, hdr.height)
       /\ encLog[k].hdr.width * sampleRate <= hdr.width
       /\ hdr.width < (encLog[k].hdr.width + 1) * sampleRate
       /\ encLog[k].hdr.height * sampleRate <= hdr.height
       /\ hdr.height < (encLog[k].hdr.height + 1) * sampleRate
       /\ encLog[k].hdr.bit_depth = hdr.bit_depth
       /\ encLog[k].hdr.color_type = hdr.color_type
       /\ encLog[k].hdr.interlace_type = hdr.interlace_type
       /\ encLog[k].hdr.compression_type = hdr.compression_type
       /\ encLog[k].hdr.filter_type = hdr.filter_type
  /\ (HeaderSeen /\ sampleRate <= Min(hdr.width, hdr.height) /\ err = "none")
       => Calls("setHeader") /= {}

\* C2 witness: a header was set for a 3 x 2 image of 16-bit gray-alpha pixels
\* at sampleRate 2, where neither division is exact for the width.
C2_Witness ==
  /\ hdr.width = 3 /\ hdr.height = 2 /\ sampleRate = 2
  /\ hdr.bit_depth = 16 /\ hdr.color_type = 4
  /\ Calls("setHeader") /= {}

\* C3 as stated: once info_callback has run on a header with
\* sampleRate > min(width, height), the run has failed with InvalidSampleRate
\* and nothing was handed to the encoder.
C3_Original ==
  (HeaderSeen /\ sampleRate > Min(hdr.width, hdr.height))
    => /\ pc = "terminated"
       /\ err = "InvalidSampleRate"
       /\ encLog = <<>>

\* C3, amended: once info_callback has run on a header with
\* sampleRate > min(width, height), the run has failed and nothing was handed
\* to the encoder; the failure is InvalidSampleRate unless creating the
\* encoder's info struct failed first (the write struct was then destroyed),
\* in which case it is the encoder's initialisation error.
C3_FailsBeforeOutput ==
  (HeaderSeen /\ sampleRate > Min(hdr.width, hdr.height))
    => /\ pc = "terminated"
       /\ encLog = <<>>
       /\ err = IF "png_write_ptr" \in held
                  THEN "InvalidSampleRate" ELSE "EncodeInitError"

\* C3 witness: info_callback has failed with InvalidSampleRate on a header
\* whose height alone is below the sample rate.
C3_Witness ==
  /\ HeaderSeen
  /\ hdr.width >= sampleRate /\ hdr.height < sampleRate
  /\ err = "InvalidSampleRate"

\* C4 as stated: every row written to the encoder holds, for every k below
\* ceil(rowWidth / (sampleRate * channels)), the source pixel at byte offset
\* k * sampleRate * channels as its k-th pixel.
C4_PackedRow ==
  \A e \in Calls("writeRow") :
    \A k \in 0..(CeilDiv(info.rowWidth, sampleRate * info.channels) - 1) :
      \A y \in 0..(info.channels - 1) :
        (k * sampleRate * info.channels + y < info.rowWidth)
          => encLog[e].row[k * info.channels + y]
               = RawRow(hdr, encLog[e].num)[k * sampleRate * info.channels + y]

\* The coroutine has returned: main's loop has ended and main exits with 0.
EndedNormally == pc \in {"done", "destroyed"}

\* C5 as stated: the run never ends normally with the stream not completed
\* (end_callback not fired): a file that ends before the end of the image
\* ends the run in a failure.
C5_NoSilentPartialSuccess == EndedNormally => info.isDone

\* C6: the encoder sees a well-formed protocol: the first call it receives is
\* setHeader and no other call is; finalize, if it comes, is the last call;
\* when the stream has completed (end_callback has fired) the calls are
\* setHeader, the rows, finalize; and once the loop has destroyed the write
\* struct the encoder receives no call.
C6_ProtocolShape ==
  /\ \A k \in 1..Len(encLog) : (encLog[k].op = "setHeader") <=> (k = 1)
  /\ \A k \in 1..Len(encLog) : encLog[k].op \in {"setHeader", "writeRow", "finalize"}
  /\ \A k \in Calls("finalize") : k = Len(encLog)
  /\ info.isDone <=> (Calls("finalize") /= {})
  /\ info.isDone => (Len(encLog) >= 2 /\ encLog[1].op = "setHeader")

C6_WellFormedProtocol ==
  /\ []C6_ProtocolShape
  /\ [][("png_write_ptr" \notin held) => (encLog' = encLog)]_vars

\* C6 witness: a run over a whole image has ended normally with the header,
\* more than one row and the finalize call handed to the encoder.
C6_Witness ==
  /\ EndedNormally
  /\ info.isDone
  /\ Cardinality(Calls("writeRow")) >= 2
  /\ encLog[Len(encLog)].op = "finalize"

\* What the transcode of `file` hands the encoder and how it ends when the
\* whole file is decoded in one piece, byte p onwards, `log` handed over so far:
\* a function of the file and the sample rate alone.
RECURSIVE InOnePiece(_, _)
InOnePiece(p, log) ==
  IF p > Len(file) THEN [log |-> log, err |-> "none"]
  ELSE IF file[p] /= p THEN [log |-> log, err |-> "DecodeFormatError"]
  ELSE IF p % RecLen /= 0 THEN InOnePiece(p + 1, log)
  ELSE IF p \div RecLen = 1
    THEN IF RateOutside(hdr, sampleRate)
           THEN [log |-> log, err |-> "InvalidSampleRate"]
           ELSE InOnePiece(p + 1, Append(log, SetHeaderCall(OutHeader(hdr, sampleRate))))
  ELSE IF p \div RecLen = hdr.height + 2
    THEN [log |-> Append(log, FinalizeCall), err |-> "none"]
  ELSE IF RowRetained(p \div RecLen - 2, sampleRate)
    THEN InOnePiece(p + 1,
           Append(log, WriteRowCall(
             ShrinkRow(RawRow(hdr, p \div RecLen - 2),
                       [isDone |-> FALSE, rowWidth |-> png_get_rowbytes(hdr),
                        channels |-> png_get_channels(hdr),
                        sampleRate |-> sampleRate]),
             p \div RecLen - 2)))
    ELSE InOnePiece(p + 1, log)

IsPrefix(a, b) == Len(a) <= Len(b) /\ \A k \in 1..Len(a) : a[k] = b[k]

\* The failures that come from the environment and not from the input bytes.
EnvFailure == srcFailed \/ err \in {"SetupError", "IOReadError", "EncodeInitError"}

\* C7: what the encoder is handed does not depend on how the source splits
\* the file into reads: at every moment the calls handed over are a prefix of
\* those the file decoded in one piece gives, and when the run has stopped
\* (no read having failed, no resource having been refused) the calls and the
\* outcome are exactly those.
C7_SplitIndependent ==
  /\ IsPrefix(encLog, InOnePiece(1, <<>>).log)
  /\ ((EndedNormally \/ pc = "terminated") /\ ~EnvFailure)
       => /\ encLog = InOnePiece(1, <<>>).log
          /\ err = InOnePiece(1, <<>>).err

\* C7 witness: a whole image of three rows was transcoded to the end through
\* a read that left the buffer partly filled, so that a structure's bytes
\* came in two spans.
C7_Witness ==
  /\ EndedNormally
  /\ info.isDone
  /\ hdr.height = 3
  /\ totalRead = 1

\* C8 as stated: once the byte source has reported a read error the run has
\* failed with IOReadError.
C8_ReadErrorFails == srcFailed => (pc = "terminated" /\ err = "IOReadError")

\* C9 as stated: when the run has stopped, on normal completion or on one of
\* the failures of reading, of the sample rate, of the encoder's
\* initialisation or of decoding, every resource has been released.
C9_AllReleased ==
  (\/ pc = "destroyed"
   \/ /\ pc = "terminated"
      /\ err \in {"IOReadError", "InvalidSampleRate", "EncodeInitError",
                  "DecodeFormatError"})
    => held = {}

\* C10: with sampleRate 1 every row the decoder has delivered was written,
\* and every written row buffer is byte for byte the row as delivered.
C10_IdentityAtRateOne ==
  (sampleRate = 1)
    => /\ WrittenRows = 0..row_num
       /\ \A e \in Calls("writeRow") : encLog[e].row = RawRow(hdr, encLog[e].num)
       /\ row_num >= 0 => new_row = RawRow(hdr, row_num)

\* C10 witness: at sampleRate 1 the second row of an image of 3 gray-alpha
\* pixels of 16 bits (12 bytes a row) was written.
C10_Witness ==
  /\ sampleRate = 1
  /\ hdr.width = 3 /\ hdr.color_type = 4 /\ hdr.bit_depth = 16
  /\ 1 \in WrittenRows


\* C11: the fill cursor stays within the buffer: 0 <= totalRead <= bufSize in
\* every state (the assertion after a read holds), the buffer keeps its fixed
\* capacity, and the span lent to the decoder, of totalRead bytes, is never
\* longer than the capacity, whatever the length of the file.
C11_CursorWithinCapacity ==
  /\ 0 <= totalRead /\ totalRead <= bufSize
  /\ DOMAIN imageBuffer = 0..(bufSize - 1)
  /\ 0 <= spanPos /\ spanPos <= totalRead

\* C11 witness: the decoder holds a full buffer that is not the first chunk
\* of a file longer than two buffers.
C11_Witness ==
  /\ pc = "process"
  /\ totalRead = bufSize
  /\ srcPos > bufSize
  /\ Len(file) > 2 * bufSize


\* C12 as stated: the decoder is handed a span only when the buffer is full
\* or when the read just made returned no byte (the source reported the end
\* of the stream), and a coroutine resumed after suspending on a partly
\* filled buffer does not go on to decode it (it goes back to filling).
C12_FullOrTerminalSpan ==
  /\ [][(pc /= "process" /\ pc' = "process")
          => (totalRead' = bufSize \/ (pc = "await" /\ srcPos' = srcPos))]_vars
  /\ [][(pc = "suspended") => (pc' /= "process")]_vars


\* The coroutine is running a stage after the reader: decoding, transforming
\* or encoding.
InStages == pc = "process"

\* C13: the coroutine is suspended only by the reader, and only by a read
\* that returned at least one byte and left the buffer not full: it becomes
\* suspended from co_await alone, through such a read; a read of no byte and
\* a read that fills the buffer leave it running; the stages after the reader
\* never suspend it.
C13_SuspendsOnlyOnPartialRead ==
  /\ [](pc = "suspended" => (0 < totalRead /\ totalRead < bufSize))
  /\ [][(pc' = "suspended" /\ pc /= "suspended")
          => (pc = "await" /\ srcPos' > srcPos /\ totalRead' < bufSize)]_vars
  /\ [][(pc = "await" /\ (srcPos' = srcPos \/ totalRead' = bufSize))
          => (pc' /= "suspended")]_vars
  /\ [][InStages => (pc' /= "suspended")]_vars

\* C13 witness: the coroutine is suspended on a partly filled buffer after
\* the decoder has already had an earlier chunk.
C13_Witness ==
  /\ pc = "suspended"
  /\ consumed > 0
  /\ 0 < totalRead /\ totalRead < bufSize


\* The driver has stopped: main has destroyed the coroutine and returns, or
\* the process was terminated.
DriverStopped == pc \in {"destroyed", "terminated"}

\* C14: for every file of the bounds the driver stops; every cycle of the
\* loop reads at least one new byte or is the last (a read of no byte gives
\* the empty span, on which the loop ends); the loop releases its resources
\* once, exactly when the stream has completed or the span is empty; and
\* after that nothing is read, decoded or handed to the encoder, and the
\* coroutine is not resumed.
C14_DriverStops ==
  /\ <>DriverStopped
  /\ [][(pc = "await" /\ pc' /= "await")
          => (srcPos' > srcPos \/ (pc' = "process" /\ totalRead' = 0))]_vars
  /\ [][(pc = "process" /\ spanPos = totalRead)
          => ((pc' = "done") <=> (info.isDone \/ totalRead = 0))]_vars
  /\ [][(pc' = "done" /\ pc /= "done")
          => (TornDown \subseteq held /\ held' = held \ TornDown)]_vars
  /\ [][EndedNormally
          => /\ pc' \in {"done", "destroyed"}
             /\ held' \cap TornDown = {}
             /\ UNCHANGED <<srcPos, imageBuffer, totalRead, spanPos, consumed,
                            info, encLog>>]_vars

\* C14 witness: main has destroyed the coroutine after a whole file of more
\* than two buffers was read to its end.
C14_Witness ==
  /\ pc = "destroyed"
  /\ Len(file) > 2 * bufSize
  /\ srcPos = Len(file)
  /\ info.isDone


\* C15: the cursor is reset to 0 only by the loop, after png_process_data has
\* taken the whole span and returned and while the stream is not completed
\* (the loop goes on to the next co_await); while the decoder still has bytes
\* of the span to take, neither the cursor nor the buffer changes; and a read
\* happens only in co_await and leaves the bytes below the cursor as they are.
C15_ClearOnlyAfterDecode ==
  /\ [][(totalRead > 0 /\ totalRead' = 0)
          => /\ pc = "process" /\ spanPos = totalRead
             /\ ~info.isDone
             /\ pc' = "await"]_vars
  /\ [][(pc = "process" /\ spanPos < totalRead)
          => (totalRead' = totalRead /\ imageBuffer' = imageBuffer)]_vars
  /\ [][(srcPos' /= srcPos)
          => /\ pc = "await"
             /\ \A k \in 0..(totalRead - 1) : imageBuffer'[k] = imageBuffer[k]]_vars

\* C15 witness: the loop has cleared the buffer after a decoded chunk and is
\* about to read the next one.
C15_Witness ==
  /\ pc = "await"
  /\ totalRead = 0
  /\ consumed > 0
  /\ srcPos < Len(file)


\* C16: in row_callback's loop, for every row width, channel count and
\* sample rate, every byte index read or written is below rowWidth, the
\* write position never passes the read position, and the row compacted in
\* place is, at every iteration and at the end, the row compacted from the
\* untouched source into a buffer of its own; the row written is that row
\* (and the one the loop computed in one piece gives).
C16_InPlaceSafe ==
  /\ \A k \in loop.reads \cup loop.writes : 0 <= k /\ k < info.rowWidth
  /\ loop.writePos <= loop.i
  /\ new_row = loop.sep
  /\ (pc = "row_written")
       => /\ encLog[1].row = loop.sep
          /\ new_row = ShrinkRow(loop.src, info)

\* C16 witness: the loop has ended on a row of 6 one-byte pixels at sample
\* rate 2, having copied the bytes at offsets 0, 2, 4 to offsets 0, 1, 2.
C16_Witness ==
  /\ pc = "row_written"
  /\ info.rowWidth = 6 /\ info.channels = 1 /\ info.sampleRate = 2
  /\ loop.reads = {0, 2, 4}
  /\ loop.writes = {0, 1, 2}


\* C17 as stated: when the stream has completed, the number of rows written
\* to the encoder is the height the output header declared,
\* floor(height / sampleRate).
C17_RowsMatchDeclaredHeight ==
  info.isDone
    => /\ encLog[1].hdr.height = hdr.height \div sampleRate
       /\ Cardinality(Calls("writeRow")) = encLog[1].hdr.height


\* The pixels of the row, when it holds whole pixels of one byte a sample.
RowPixels == info.rowWidth \div info.channels

\* The width info_callback declares for an image of RowPixels pixels a row.
DeclaredWidth ==
  OutHeader([NoHdr EXCEPT !.width = RowPixels, !.height = RowPixels],
            info.sampleRate).width

\* C18: for a row of whole pixels of one byte a sample and a sample rate of
\* at most the width, the first floor(width / sampleRate) pixels of the row
\* written, those the declared width covers, are the source pixels 0,
\* sampleRate, 2*sampleRate, ...: none of them is lost to the bounds check,
\* which each of them passes when sampleRate >= 2 (at sampleRate 1 the pixel
\* it stops, the last, is in place already).
C18_DeclaredPixelsKept ==
  (/\ pc = "row_written"
   /\ info.rowWidth % info.channels = 0
   /\ info.sampleRate <= RowPixels)
    => /\ DeclaredWidth = RowPixels \div info.sampleRate
       /\ \A k \in 0..(DeclaredWidth - 1) :
            /\ \A y \in 0..(info.channels - 1) :
                 encLog[1].row[k * info.channels + y]
                   = loop.src[k * info.sampleRate * info.channels + y]
            /\ \/ k * info.sampleRate * info.channels + info.channels < info.rowWidth
               \/ info.sampleRate = 1

\* C18 witness: a row of 5 one-byte pixels was written at sample rate 2: the
\* declared width covers the pixels copied from offsets 0 and 2, and the
\* pixel at offset 4, which the bounds check stops, is beyond it.
C18_Witness ==
  /\ pc = "row_written"
  /\ info.rowWidth = 5 /\ info.channels = 1 /\ info.sampleRate = 2
  /\ DeclaredWidth = 2
  /\ loop.reads = {0, 2}


\* The span that await_resume hands on is the last totalRead bytes taken
\* from the source.
SpanIsLastRead ==
  /\ totalRead <= srcPos
  /\ \A k \in 0..(totalRead - 1) :
       imageBuffer[k] = file[srcPos - totalRead + k + 1]

\* C19: at every co_await the cursor is 0, so await_ready is false and a read
\* is attempted; and every span handed to the decoder is what exactly one
\* read returned: the co_await that hands it on or suspends moved the source
\* by exactly the length of the span, the span holds those bytes, and nothing
\* else (the resumption, the decoder) reads from the source.
C19_OneReadPerSpan ==
  /\ [](pc = "await" => (totalRead = 0 /\ ~await_ready))
  /\ [](pc \in {"process", "suspended"} => SpanIsLastRead)
  /\ [][(pc = "await" /\ pc' \in {"process", "suspended"})
          => totalRead' = srcPos' - srcPos]_vars
  /\ [][(pc /= "await") => srcPos' = srcPos]_vars

\* C19 witness: the decoder is handed a second chunk that fills the buffer,
\* read in one call after a first chunk of a full buffer was decoded.
C19_Witness ==
  /\ pc = "process"
  /\ spanPos = 0
  /\ consumed = bufSize
  /\ totalRead = bufSize
  /\ srcPos = 2 * bufSize

====
